---------------------------- MODULE Spec2Model ----------------------------
(***************************************************************************)
(* A model of the user-account service: the password codec of             *)
(* app/password_utils.py and the request handlers of app/routes.py over   *)
(* the users table of app/database.py.                                    *)
(*                                                                         *)
(* Text is a sequence of Unicode code points, bytes are integers 0..255.  *)
(* A handler that reads and then writes the table is two steps (its query *)
(* and its commit), so that requests of different clients interleave the  *)
(* way concurrent requests on separate database sessions do.              *)
(***************************************************************************)
EXTENDS Integers, Sequences, FiniteSets, TLC

VARIABLES
    users,      \* the rows of table "users": [id, email, password]
    seq,        \* the last value drawn from the id sequence of the table
    req,        \* per client: the request in progress, between query and commit
    out,        \* the last answer given: the request and its response
    calls,      \* number of requests made so far
    issued,     \* history: every (id, email) ever given to a stored row
    accepted,   \* history: per email, the secret of the last committed write
    cs,         \* codec run: the secret that is encoded
    cc,         \* codec run: the candidate that is verified
    ch,         \* codec run: the representation under test
    cres,       \* codec run: the outcome of verify_password
    cresp       \* codec run: the response of login against that representation

vars == <<users, seq, req, out, calls, issued, accepted, cs, cc, ch, cres, cresp>>

protoVars == <<users, seq, req, out, calls, issued, accepted>>

codecVars == <<cs, cc, ch, cres, cresp>>

---------------------------------------------------------------------------
(* Program constants *)

MinLength == 8

MaxLength == 72

BcryptLimit == 72

BcryptCost == 12

(* Bounds of the model *)

NumSalts == 2

MaxCalls == 3

Salts == 1..NumSalts

Clients == {1, 2}

Emails == {"a@x.com", "b@x.com"}

---------------------------------------------------------------------------
(* Text and bytes *)

Rep(cp, n) == [i \in 1..n |-> cp]

Min(a, b) == IF a < b THEN a ELSE b

\* str.encode('utf-8') of one code point
Utf8Char(cp) ==
    IF cp < 128 THEN <<cp>>
    ELSE IF cp < 2048 THEN <<192 + (cp \div 64), 128 + (cp % 64)>>
    ELSE IF cp < 65536
         THEN <<224 + (cp \div 4096), 128 + ((cp \div 64) % 64), 128 + (cp % 64)>>
    ELSE <<240 + (cp \div 262144), 128 + ((cp \div 4096) % 64),
           128 + ((cp \div 64) % 64), 128 + (cp % 64)>>

RECURSIVE Utf8(_)
\* str.encode('utf-8')
Utf8(s) == IF s = <<>> THEN <<>> ELSE Utf8Char(Head(s)) \o Utf8(Tail(s))

\* bytes[:n]
Slice(b, n) == SubSeq(b, 1, Min(Len(b), n))

---------------------------------------------------------------------------
(* The credential codec: app/password_utils.py *)

\* The digest bcrypt computes, as an ideal one-way function: a symbolic value
\* that is equal for equal (cost, salt, key) and different otherwise.
Digest(cost, salt, key) == <<cost, salt>> \o key

\* bcrypt.hashpw(password_bytes, salt): the self-describing representation
\* "$2b$<cost>$<salt><digest>"
bcrypt_hashpw(key, salt) ==
    [fmt |-> "2b", cost |-> BcryptCost, salt |-> salt,
     digest |-> Digest(BcryptCost, salt, key)]

\* variant of hash_password that hashes all the bytes of the secret
hash_password_untruncated(password, salt) == bcrypt_hashpw(Utf8(password), salt)

\* hash_password(password), with the salt bcrypt.gensalt() draws
hash_password(password, salt) ==
    bcrypt_hashpw(Slice(Utf8(password), BcryptLimit), salt)

\* bcrypt.checkpw(password_bytes, hashed_bytes): re-hashes with the salt and
\* cost read from hashed_bytes and compares; raises ValueError when no salt
\* can be read from it.
bcrypt_checkpw(key, hashed) ==
    IF hashed.fmt \notin {"2b", "cut"} THEN "Raise"
    ELSE IF [fmt |-> "2b", cost |-> hashed.cost, salt |-> hashed.salt,
             digest |-> Digest(hashed.cost, hashed.salt, key)] = hashed
         THEN "True"
         ELSE "False"

\* variant of verify_password that compares all the bytes of the candidate
verify_password_untruncated(plain_password, hashed_password) ==
    LET r == bcrypt_checkpw(Utf8(plain_password), hashed_password)
    IN  IF r = "Raise" THEN "False" ELSE r

\* variant of verify_password without its try/except
verify_password_noexcept(plain_password, hashed_password) ==
    bcrypt_checkpw(Slice(Utf8(plain_password), BcryptLimit), hashed_password)

\* verify_password(plain_password, hashed_password): "True", "False", or
\* "Raise" when an exception leaves the function
verify_password(plain_password, hashed_password) ==
    LET r == bcrypt_checkpw(Slice(Utf8(plain_password), BcryptLimit),
                            hashed_password)
    IN  IF r = "Raise" THEN "False" ELSE r

\* What a stored representation can look like after damage outside the
\* program: another format (no bcrypt salt can be read), a representation cut
\* short after its salt, a well-formed one with an altered digest.
Damaged(h) ==
    { [h EXCEPT !.fmt = "foreign"],
      [h EXCEPT !.fmt = "cut", !.digest = Slice(h.digest, Len(h.digest) - 1)],
      [h EXCEPT !.digest = h.digest \o <<0>>] }

NoHash == [fmt |-> "none", cost |-> 0, salt |-> 0, digest |-> <<>>]

---------------------------------------------------------------------------
(* Boundary validation: the pydantic models of app/routes.py *)

\* Field(..., min_length=8, max_length=72) on a str: counts characters
LengthOk(s) == MinLength <= Len(s) /\ Len(s) <= MaxLength

\* UserSchema.password
UserSchemaOk(password) == LengthOk(password)

\* PasswordUpdate.new_password
PasswordUpdateOk(new_password) == LengthOk(new_password)

\* a LoginSchema with the bounds of UserSchema
LoginSchemaOkBounded(password) == LengthOk(password)

\* LoginSchema.password: any str
LoginSchemaOk(password) == TRUE

---------------------------------------------------------------------------
(* Responses *)

NoResp == [status |-> 0, key |-> "", text |-> "", rows |-> {}]

\* return {"message": ...}
Message(status, text) ==
    [status |-> status, key |-> "message", text |-> text, rows |-> {}]

\* raise HTTPException(status_code=..., detail=...)
HttpError(status, text) ==
    [status |-> status, key |-> "detail", text |-> text, rows |-> {}]

\* a request body the pydantic model rejects
Unprocessable == HttpError(422, "validation error")

\* an exception no handler catches
ServerError == [status |-> 500, key |-> "", text |-> "Internal Server Error",
                rows |-> {}]

AlreadyExists == HttpError(400, "User already exists")

NotFound == HttpError(404, "User not found")

InvalidCredentials == HttpError(401, "Invalid email or password")

---------------------------------------------------------------------------
(* Storage: the users table of app/database.py *)

\* db.query(UserDB).filter(UserDB.email == email).first(): the id of the row,
\* 0 for None
first(rows, email) ==
    IF \E u \in rows : u.email = email
    THEN (CHOOSE u \in rows : u.email = email).id
    ELSE 0

\* the rows with this email
AccountsOf(rows, email) == {u \in rows : u.email = email}

RowById(rows, id) == CHOOSE u \in rows : u.id = id

RowByEmail(rows, email) == CHOOSE u \in rows : u.email = email

\* variant of UniqueViolation: no unique index
UniqueViolationNone(rows, id, email) == FALSE

\* variant of UniqueViolation: the unique index on id instead of email
UniqueViolationOnId(rows, id, email) == \E u \in rows : u.id = id

\* Column(String, unique=True) on email: the insert that would give two rows
\* one email fails
UniqueViolation(rows, id, email) == \E u \in rows : u.email = email

\* variant of NextId: one more than the largest id stored, as a table
\* without a sequence assigns it
NextIdReuse(rows, last) ==
    IF rows = {} THEN 1
    ELSE (CHOOSE m \in {u.id : u \in rows} : \A u \in rows : u.id <= m) + 1

\* Column(Integer, primary_key=True): the id comes from the table's sequence
NextId(rows, last) == last + 1

\* variant of UserResponses: the rows as they are stored
UserResponsesUnfiltered(rows) == rows

\* response_model=List[UserResponse]: id and email of every row
UserResponses(rows) == {[id |-> u.id, email |-> u.email] : u \in rows}

---------------------------------------------------------------------------
(* Inputs *)

\* "aaaaaaaa": 8 characters, 8 bytes
Plain8 == Rep(97, MinLength)

\* 71 times "a", then U+00E9: 72 characters, 73 bytes
Wide72 == Rep(97, MaxLength - 1) \o <<233>>

\* 71 times "a", then U+00EA: 72 characters, 73 bytes, the first 72 bytes
\* those of Wide72
Wide72b == Rep(97, MaxLength - 1) \o <<234>>

\* Wide72 and one more "a": 73 characters
Wide73 == Wide72 \o <<97>>

\* 4 times U+00E9: 4 characters, 8 bytes
Narrow4 == Rep(233, MinLength \div 2)

\* the secrets sent to register, to update_password and to login
RegisterSecrets == {Plain8, Wide72, Narrow4}

ChangeSecrets == {Wide72b, Narrow4}

LoginSecrets == {Plain8, Wide72, Wide73, Narrow4}

Secrets == RegisterSecrets \cup ChangeSecrets \cup LoginSecrets

NoSecret == <<>>

---------------------------------------------------------------------------
(* Requests *)

Idle == [op |-> "none", email |-> "", pw |-> NoSecret, pc |-> "idle",
         seen |-> 0]

NoAnswer == [client |-> 0, op |-> "none", email |-> "", pw |-> NoSecret,
             seen |-> 0, resp |-> NoResp]

Free(c) == req[c].pc = "idle" /\ calls < MaxCalls

\* the request of client c is answered within the step that receives it
Answer(c, op, email, pw, seen, resp) ==
    /\ out' = [client |-> c, op |-> op, email |-> email, pw |-> pw,
               seen |-> seen, resp |-> resp]
    /\ UNCHANGED req

\* the request of client c has run its query and goes on to its commit
Proceed(c, op, email, pw, seen) ==
    /\ req' = [req EXCEPT ![c] = [op |-> op, email |-> email, pw |-> pw,
                                  pc |-> "commit", seen |-> seen]]
    /\ UNCHANGED out

\* the request in progress of client c is answered
Finish(c, resp) ==
    /\ out' = [client |-> c, op |-> req[c].op, email |-> req[c].email,
               pw |-> req[c].pw, seen |-> req[c].seen, resp |-> resp]
    /\ req' = [req EXCEPT ![c] = Idle]

Init ==
    /\ users = {}
    /\ seq = 0
    /\ req = [c \in Clients |-> Idle]
    /\ out = NoAnswer
    /\ calls = 0
    /\ issued = {}
    /\ accepted = [e \in Emails |-> NoSecret]
    /\ cs = NoSecret
    /\ cc = NoSecret
    /\ ch = NoHash
    /\ cres = "None"
    /\ cresp = NoResp

---------------------------------------------------------------------------
(* POST /api/user *)

\* variant of RegisterCheck without the existence check
RegisterCheckNoLookup(c, email, password) ==
    /\ Free(c)
    /\ calls' = calls + 1
    /\ IF ~UserSchemaOk(password)
       THEN Answer(c, "register", email, password, 0, Unprocessable)
       ELSE Proceed(c, "register", email, password, 0)
    /\ UNCHANGED <<users, seq, issued, accepted, codecVars>>

\* register, to the end of its existence check
RegisterCheck(c, email, password) ==
    /\ Free(c)
    /\ calls' = calls + 1
    /\ IF ~UserSchemaOk(password)
       THEN Answer(c, "register", email, password, 0, Unprocessable)
       ELSE IF first(users, email) # 0
       THEN Answer(c, "register", email, password, first(users, email),
                   AlreadyExists)
       ELSE Proceed(c, "register", email, password, 0)
    /\ UNCHANGED <<users, seq, issued, accepted, codecVars>>

\* variant of RegisterCommit that stores the secret as it came
RegisterCommitPlain(c) ==
    /\ req[c].op = "register" /\ req[c].pc = "commit"
    /\ LET id == NextId(users, seq)
           email == req[c].email
       IN  /\ seq' = id
           /\ IF UniqueViolation(users, id, email)
              THEN /\ Finish(c, ServerError)
                   /\ UNCHANGED <<users, issued, accepted>>
              ELSE /\ users' = users \cup
                         {[id |-> id, email |-> email,
                           password |-> [fmt |-> "plain", cost |-> 0, salt |-> 0,
                                         digest |-> Utf8(req[c].pw)]]}
                   /\ issued' = issued \cup {[id |-> id, email |-> email]}
                   /\ accepted' = [accepted EXCEPT ![email] = req[c].pw]
                   /\ Finish(c, Message(201, "User registered successfully"))
    /\ UNCHANGED <<calls, codecVars>>

\* variant of RegisterCommit that answers with the id and email of the new row
RegisterCommitReturnsUser(c) ==
    /\ req[c].op = "register" /\ req[c].pc = "commit"
    /\ \E salt \in Salts :
         LET hashed_pw == hash_password(req[c].pw, salt)
             id == NextId(users, seq)
             email == req[c].email
         IN  /\ seq' = id
             /\ IF UniqueViolation(users, id, email)
                THEN /\ Finish(c, ServerError)
                     /\ UNCHANGED <<users, issued, accepted>>
                ELSE /\ users' = users \cup
                           {[id |-> id, email |-> email, password |-> hashed_pw]}
                     /\ issued' = issued \cup {[id |-> id, email |-> email]}
                     /\ accepted' = [accepted EXCEPT ![email] = req[c].pw]
                     /\ Finish(c, [status |-> 201, key |-> "", text |-> "",
                                   rows |-> {[id |-> id, email |-> email]}])
    /\ UNCHANGED <<calls, codecVars>>

\* register, from hash_password to db.refresh: the INSERT and its COMMIT
RegisterCommit(c) ==
    /\ req[c].op = "register" /\ req[c].pc = "commit"
    /\ \E salt \in Salts :
         LET hashed_pw == hash_password(req[c].pw, salt)
             id == NextId(users, seq)
             email == req[c].email
         IN  /\ seq' = id
             /\ IF UniqueViolation(users, id, email)
                THEN /\ Finish(c, ServerError)
                     /\ UNCHANGED <<users, issued, accepted>>
                ELSE /\ users' = users \cup
                           {[id |-> id, email |-> email, password |-> hashed_pw]}
                     /\ issued' = issued \cup {[id |-> id, email |-> email]}
                     /\ accepted' = [accepted EXCEPT ![email] = req[c].pw]
                     /\ Finish(c, Message(201, "User registered successfully"))
    /\ UNCHANGED <<calls, codecVars>>

(* GET /api/users *)

\* get_all_users
ListAccounts(c) ==
    /\ Free(c)
    /\ calls' = calls + 1
    /\ Answer(c, "list", "", NoSecret, 0,
              [status |-> 200, key |-> "", text |-> "",
               rows |-> UserResponses(users)])
    /\ UNCHANGED <<users, seq, issued, accepted, codecVars>>

(* PUT /api/user/change-password/{email} *)

\* variant of ChangeCheck without the lookup failing
ChangeCheckNoLookup(c, email, new_password) ==
    /\ Free(c)
    /\ calls' = calls + 1
    /\ IF ~PasswordUpdateOk(new_password)
       THEN Answer(c, "change", email, new_password, 0, Unprocessable)
       ELSE Proceed(c, "change", email, new_password, first(users, email))
    /\ UNCHANGED <<users, seq, issued, accepted, codecVars>>

\* update_password, to the end of its lookup
ChangeCheck(c, email, new_password) ==
    /\ Free(c)
    /\ calls' = calls + 1
    /\ IF ~PasswordUpdateOk(new_password)
       THEN Answer(c, "change", email, new_password, 0, Unprocessable)
       ELSE IF first(users, email) = 0
       THEN Answer(c, "change", email, new_password, 0, NotFound)
       ELSE Proceed(c, "change", email, new_password, first(users, email))
    /\ UNCHANGED <<users, seq, issued, accepted, codecVars>>

\* variant of ChangeCommit that inserts the row again when it is gone
ChangeCommitUpsert(c) ==
    /\ req[c].op = "change" /\ req[c].pc = "commit"
    /\ \E salt \in Salts :
         LET hashed_pw == hash_password(req[c].pw, salt)
         IN  /\ users' = {u \in users : u.id # req[c].seen} \cup
                         {[id |-> req[c].seen, email |-> req[c].email,
                           password |-> hashed_pw]}
             /\ accepted' = [accepted EXCEPT ![req[c].email] = req[c].pw]
             /\ Finish(c, Message(200, "Password updated successfully"))
    /\ UNCHANGED <<seq, calls, issued, codecVars>>

\* variant of ChangeCommit that answers without writing
ChangeCommitNoWrite(c) ==
    /\ req[c].op = "change" /\ req[c].pc = "commit"
    /\ Finish(c, Message(200, "Password updated successfully"))
    /\ UNCHANGED <<users, accepted, seq, calls, issued, codecVars>>

\* variant of ChangeCommit whose UPDATE has no WHERE clause
ChangeCommitAllRows(c) ==
    /\ req[c].op = "change" /\ req[c].pc = "commit"
    /\ \E salt \in Salts :
         LET hashed_pw == hash_password(req[c].pw, salt)
         IN  IF \E u \in users : u.id = req[c].seen
             THEN /\ users' = {[u EXCEPT !.password = hashed_pw] : u \in users}
                  /\ accepted' = [e \in Emails |->
                                    IF AccountsOf(users, e) # {} THEN req[c].pw
                                    ELSE accepted[e]]
                  /\ Finish(c, Message(200, "Password updated successfully"))
             ELSE /\ Finish(c, ServerError)
                  /\ UNCHANGED <<users, accepted>>
    /\ UNCHANGED <<seq, calls, issued, codecVars>>

\* variant of ChangeCommit whose UPDATE of no row is not an error
ChangeCommitSilent(c) ==
    /\ req[c].op = "change" /\ req[c].pc = "commit"
    /\ \E salt \in Salts :
         LET hashed_pw == hash_password(req[c].pw, salt)
         IN  IF \E u \in users : u.id = req[c].seen
             THEN LET user == RowById(users, req[c].seen)
                  IN  /\ users' = (users \ {user}) \cup
                                  {[user EXCEPT !.password = hashed_pw]}
                      /\ accepted' = [accepted EXCEPT ![user.email] = req[c].pw]
             ELSE UNCHANGED <<users, accepted>>
    /\ Finish(c, Message(200, "Password updated successfully"))
    /\ UNCHANGED <<seq, calls, issued, codecVars>>

\* update_password, from hash_password on: the UPDATE of the row read and
\* its COMMIT; an UPDATE that matches no row raises StaleDataError
ChangeCommit(c) ==
    /\ req[c].op = "change" /\ req[c].pc = "commit"
    /\ \E salt \in Salts :
         LET hashed_pw == hash_password(req[c].pw, salt)
         IN  IF \E u \in users : u.id = req[c].seen
             THEN LET user == RowById(users, req[c].seen)
                  IN  /\ users' = (users \ {user}) \cup
                                  {[user EXCEPT !.password = hashed_pw]}
                      /\ accepted' = [accepted EXCEPT ![user.email] = req[c].pw]
                      /\ Finish(c, Message(200, "Password updated successfully"))
             ELSE /\ Finish(c, ServerError)
                  /\ UNCHANGED <<users, accepted>>
    /\ UNCHANGED <<seq, calls, issued, codecVars>>

(* DELETE /api/user/{email} *)

\* delete_user, to the end of its lookup
DeleteCheck(c, email) ==
    /\ Free(c)
    /\ calls' = calls + 1
    /\ IF first(users, email) = 0
       THEN Answer(c, "delete", email, NoSecret, 0, NotFound)
       ELSE Proceed(c, "delete", email, NoSecret, first(users, email))
    /\ UNCHANGED <<users, seq, issued, accepted, codecVars>>

\* delete_user, from db.delete on: the DELETE of the row read and its COMMIT
DeleteCommit(c) ==
    /\ req[c].op = "delete" /\ req[c].pc = "commit"
    /\ users' = {u \in users : u.id # req[c].seen}
    /\ accepted' = [e \in Emails |->
                      IF \E u \in users' : u.email = e THEN accepted[e]
                      ELSE NoSecret]
    /\ Finish(c, Message(200, "User deleted successfully"))
    /\ UNCHANGED <<seq, calls, issued, codecVars>>

(* POST /api/login *)

\* variant of LoginResponse that answers NotFound for an absent email
LoginResponseTelling(rows, email, password) ==
    IF first(rows, email) = 0 THEN NotFound
    ELSE LET v == verify_password(password, RowByEmail(rows, email).password)
         IN  IF v = "Raise" THEN ServerError
             ELSE IF v = "False" THEN InvalidCredentials
             ELSE Message(200, "Login successful")

\* login: the response to the credentials, given the rows of the table
LoginResponse(rows, email, password) ==
    IF first(rows, email) = 0 THEN InvalidCredentials
    ELSE LET v == verify_password(password, RowByEmail(rows, email).password)
         IN  IF v = "Raise" THEN ServerError
             ELSE IF v = "False" THEN InvalidCredentials
             ELSE Message(200, "Login successful")

\* variant of Login that stores a fresh hash of the secret when it matches
LoginRehash(c, email, password) ==
    /\ Free(c)
    /\ calls' = calls + 1
    /\ Answer(c, "login", email, password, first(users, email),
              LoginResponse(users, email, password))
    /\ IF LoginResponse(users, email, password).status = 200
       THEN \E salt \in Salts :
              users' = (users \ {RowByEmail(users, email)}) \cup
                       {[RowByEmail(users, email) EXCEPT
                            !.password = hash_password(password, salt)]}
       ELSE UNCHANGED users
    /\ UNCHANGED <<seq, issued, accepted, codecVars>>

\* login
Login(c, email, password) ==
    /\ Free(c)
    /\ calls' = calls + 1
    /\ IF ~LoginSchemaOk(password)
       THEN Answer(c, "login", email, password, 0, Unprocessable)
       ELSE Answer(c, "login", email, password, first(users, email),
                   LoginResponse(users, email, password))
    /\ UNCHANGED <<users, seq, issued, accepted, codecVars>>

Next ==
    \/ \E c \in Clients, e \in Emails, p \in RegisterSecrets : RegisterCheck(c, e, p)
    \/ \E c \in Clients : RegisterCommit(c)
    \/ \E c \in Clients : ListAccounts(c)
    \/ \E c \in Clients, e \in Emails, p \in ChangeSecrets : ChangeCheck(c, e, p)
    \/ \E c \in Clients : ChangeCommit(c)
    \/ \E c \in Clients, e \in Emails : DeleteCheck(c, e)
    \/ \E c \in Clients : DeleteCommit(c)
    \/ \E c \in Clients, e \in Emails, p \in LoginSecrets : Login(c, e, p)

Spec == Init /\ [][Next]_vars

---------------------------------------------------------------------------
(* The codec on its own: a secret is encoded, the representation is kept or
   damaged, a candidate is verified against it and sent to login against an
   account that stores it. *)

Alphabet == {97, 233, 234, 8364}

BaseLengths == {MinLength - 1, MaxLength - 1, MaxLength}

Endings == {<<>>} \cup {<<cp>> : cp \in Alphabet}

CodecSecrets == {Rep(cp, n) \o t : cp \in Alphabet, n \in BaseLengths, t \in Endings}

InitCodec ==
    /\ users = {}
    /\ seq = 0
    /\ req = [c \in Clients |-> Idle]
    /\ out = NoAnswer
    /\ calls = 0
    /\ issued = {}
    /\ accepted = [e \in Emails |-> NoSecret]
    /\ cs \in CodecSecrets
    /\ cc \in CodecSecrets
    /\ ch = NoHash
    /\ cres = "None"
    /\ cresp = NoResp

\* representation = hash_password(secret)
CodecEncode ==
    /\ ch = NoHash
    /\ \E salt \in Salts : ch' = hash_password(cs, salt)
    /\ UNCHANGED <<cs, cc, cres, cresp, protoVars>>

\* the stored representation is damaged outside the program
CodecDamage ==
    /\ \E salt \in Salts : ch = hash_password(cs, salt)
    /\ cres = "None"
    /\ ch' \in Damaged(ch)
    /\ UNCHANGED <<cs, cc, cres, cresp, protoVars>>

\* verify_password(candidate, representation), and login with the candidate
\* on an account that stores the representation
CodecVerify ==
    /\ ch # NoHash
    /\ cres = "None"
    /\ cres' = verify_password(cc, ch)
    /\ cresp' = LoginResponse({[id |-> 1, email |-> "a@x.com", password |-> ch]},
                              "a@x.com", cc)
    /\ UNCHANGED <<cs, cc, ch, protoVars>>

NextCodec == CodecEncode \/ CodecDamage \/ CodecVerify

SpecCodec == InitCodec /\ [][NextCodec]_vars

---------------------------------------------------------------------------
(* Properties *)

\* byte sequences a and b are the same on their first n positions
SamePrefix(a, b, n) ==
    \A i \in 1..n : /\ (i <= Len(a)) <=> (i <= Len(b))
                    /\ (i <= Len(a)) => (a[i] = b[i])

\* client c makes the request (op, email, pw) in this step
Called(c, op, email, pw) ==
    /\ calls' = calls + 1
    /\ \/ /\ req'[c] # req[c]
          /\ req'[c].op = op /\ req'[c].email = email /\ req'[c].pw = pw
       \/ /\ req' = req
          /\ out'.client = c
          /\ out'.op = op /\ out'.email = email /\ out'.pw = pw

\* the request in progress of client c, an op on its way to commit, commits
\* in this step
Committed(c, op) ==
    /\ req[c].op = op /\ req[c].pc = "commit"
    /\ req'[c].pc = "idle"

\* C1: whatever requests were made, in whatever order and interleaving, the
\* table holds at most one account per email.
C1_OneAccountPerEmail ==
    \A u1 \in users, u2 \in users : u1.email = u2.email => u1 = u2

\* a second registration of a stored email was answered with a failure
C1_Witness ==
    /\ out.op = "register"
    /\ out.resp.status \in {400, 500}
    /\ Cardinality(AccountsOf(users, out.email)) = 1
    /\ Cardinality(users) = 1

\* C2: when a register request has passed its existence check and another
\* request inserts the same email before it does, its own insert fails: after
\* every register that reached its insert, the table holds exactly one account
\* for that email.
C2_OneInsertSurvives ==
    (out.op = "register" /\ out.resp.status \in {201, 500})
        => Cardinality(AccountsOf(users, out.email)) = 1

\* the register that lost the race has been answered
C2_Witness ==
    /\ out.op = "register"
    /\ out.resp = ServerError
    /\ out.seen = 0
    /\ Cardinality(AccountsOf(users, out.email)) = 1

\* C3: a register request with a valid secret p for an email that has an
\* account is answered AlreadyExists (400) and changes nothing: the rows are
\* the same, login with the earlier secret still succeeds, and login with p
\* fails when p differs from the earlier secret within the first 72 bytes.
C3_DuplicateRegisterRejected ==
    [][\A c \in Clients, e \in Emails, p \in RegisterSecrets :
         (Called(c, "register", e, p) /\ UserSchemaOk(p)
              /\ AccountsOf(users, e) # {})
         => /\ out'.client = c
            /\ out'.resp = AlreadyExists
            /\ users' = users
            /\ LoginResponse(users', e, accepted[e]).status = 200
            /\ ~SamePrefix(Utf8(p), Utf8(accepted[e]), BcryptLimit)
                 => LoginResponse(users', e, p) = InvalidCredentials]_vars

\* a register with another secret was refused and the earlier secret logs in
C3_Witness ==
    /\ out.op = "register"
    /\ out.resp = AlreadyExists
    /\ AccountsOf(users, out.email) # {}
    /\ ~SamePrefix(Utf8(out.pw), Utf8(accepted[out.email]), BcryptLimit)
    /\ LoginResponse(users, out.email, accepted[out.email]).status = 200
    /\ LoginResponse(users, out.email, out.pw) = InvalidCredentials

\* C4: the credential of every stored account is hash_password of the secret
\* last committed for it by register or update_password, for one of the
\* salts; it is a bcrypt representation, never the secret's own bytes.
C4_CredentialIsEncodedSecret ==
    \A u \in users :
        /\ accepted[u.email] # NoSecret
        /\ \E salt \in Salts :
               /\ salt = u.password.salt
               /\ u.password = hash_password(accepted[u.email], salt)
        /\ u.password.fmt = "2b"
        /\ u.password.digest # Utf8(accepted[u.email])

\* an account whose credential was written by update_password
C4_Witness ==
    /\ out.op = "change"
    /\ out.resp.status = 200
    /\ \E u \in users :
          /\ u.email = out.email
          /\ accepted[u.email] = out.pw
          /\ \E salt \in Salts : u.password = hash_password(out.pw, salt)

\* C5: every login that fails is answered with the one InvalidCredentials
\* response (401, the same detail), and for a stored and an absent email
\* that both reject a secret the two responses are equal.
C5_LoginFailuresIdentical ==
    /\ (out.op = "login" /\ out.resp.status # 200)
           => out.resp = InvalidCredentials
    /\ \A p \in LoginSecrets :
           LET failures == {r \in {LoginResponse(users, e, p) : e \in Emails} :
                               r.status # 200}
           IN  \A r1 \in failures, r2 \in failures : r1 = r2

\* a login on an absent email was refused while the same secret is a wrong
\* secret for a stored email
C5_Witness ==
    /\ out.op = "login"
    /\ out.seen = 0
    /\ out.resp = InvalidCredentials
    /\ \E e \in Emails :
          /\ AccountsOf(users, e) # {}
          /\ e # out.email
          /\ LoginResponse(users, e, out.pw) = out.resp

\* h is a representation hash_password gives for secret s
Genuine(h, s) == \E salt \in Salts : h = hash_password(s, salt)

\* C6: for every secret s (of valid length or not) and every salt,
\* verify_password(s, hash_password(s)) is true.
C6_VerifyAcceptsEncoded ==
    (cres # "None" /\ Genuine(ch, cs) /\ cc = cs) => cres = "True"

\* a secret of valid length and more than 72 bytes was verified against its
\* own representation
C6_Witness ==
    /\ cres = "True"
    /\ Genuine(ch, cs)
    /\ cc = cs
    /\ UserSchemaOk(cs)
    /\ Len(Utf8(cs)) > BcryptLimit

\* C7: against hash_password(s), verify_password accepts a candidate exactly
\* when candidate and s have the same first 72 UTF-8 bytes: a candidate that
\* differs from s only beyond byte 72 is accepted, one that differs within
\* the first 72 bytes is refused (the digest being collision-free).
C7_TruncationEquivalence ==
    (cres # "None" /\ Genuine(ch, cs))
        => (cres = "True" <=> SamePrefix(Utf8(cc), Utf8(cs), BcryptLimit))

\* a candidate that differs from the secret beyond byte 72 was accepted
C7_Witness ==
    /\ cres = "True"
    /\ Genuine(ch, cs)
    /\ Utf8(cc) # Utf8(cs)
    /\ Len(Utf8(cc)) # Len(Utf8(cs))

ByteLengthOk(s) == MinLength <= Len(Utf8(s)) /\ Len(Utf8(s)) <= MaxLength

\* C9: register and update_password accept a secret exactly when its UTF-8
\* encoding has between 8 and 72 bytes.
C9_AcceptedIffByteLength ==
    /\ \A c \in Clients :
           req[c].op \in {"register", "change"} => ByteLengthOk(req[c].pw)
    /\ out.op \in {"register", "change"}
           => (out.resp = Unprocessable <=> ~ByteLengthOk(out.pw))

C11_AbsentTargetNotFound ==
    [][/\ \A c \in Clients, e \in Emails, p \in ChangeSecrets :
            (Called(c, "change", e, p) /\ PasswordUpdateOk(p)
                 /\ AccountsOf(users, e) = {})
            => /\ out'.client = c
               /\ out'.resp = NotFound
               /\ users' = users
               /\ req' = req
       /\ \A c \in Clients, e \in Emails :
            (Called(c, "delete", e, NoSecret) /\ AccountsOf(users, e) = {})
            => /\ out'.client = c
               /\ out'.resp = NotFound
               /\ users' = users
               /\ req' = req
      ]_vars

\* update_password for an absent email was answered NotFound while another
\* account is stored
C11_Witness ==
    /\ out.op = "change"
    /\ out.resp = NotFound
    /\ AccountsOf(users, out.email) = {}
    /\ users # {}

\* C12: the answer of get_all_users has one element per stored account, each
\* with exactly the fields id and email of that account.
C12_ListIdAndEmailOnly ==
    (out.op = "list")
        => /\ out.resp.status = 200
           /\ \A r \in out.resp.rows : DOMAIN r = {"id", "email"}
           /\ \A u \in users :
                  \E r \in out.resp.rows : r.id = u.id /\ r.email = u.email
           /\ Cardinality(out.resp.rows) = Cardinality(users)

\* two accounts were listed
C12_Witness ==
    /\ out.op = "list"
    /\ Cardinality(out.resp.rows) = 2
    /\ Cardinality(users) = 2

\* C13: a login or get_all_users request, answered with success or failure,
\* leaves the table as it was: the same accounts with the same id, email and
\* credential.
C13_ReadsChangeNothing ==
    [][/\ \A c \in Clients, e \in Emails, p \in LoginSecrets :
            Called(c, "login", e, p)
            => (users' = users /\ seq' = seq /\ accepted' = accepted)
       /\ \A c \in Clients :
            Called(c, "list", "", NoSecret)
            => (users' = users /\ seq' = seq /\ accepted' = accepted)
      ]_vars

\* a login succeeded on a stored account
C13_Witness ==
    /\ out.op = "login"
    /\ out.resp.status = 200
    /\ AccountsOf(users, out.email) # {}

\* C14, as stated: a successful register answers with the id and email of
\* the created account, and without its credential.
C14_RegisterReturnsIdentity ==
    (out.op = "register" /\ out.resp.status = 201)
        => /\ \E r \in out.resp.rows :
                  /\ DOMAIN r = {"id", "email"}
                  /\ r.email = out.email
                  /\ \E u \in users : u.id = r.id /\ u.email = r.email
           /\ out.resp.key # "password"

\* C14, amended: a successful register answers 201 with the one field
\* "message" and its fixed text; the answer carries neither the id and email
\* of the created account nor its credential.
C14_RegisterReturnsMessage ==
    (out.op = "register" /\ out.resp.status = 201)
        => /\ out.resp.key = "message"
           /\ out.resp.text = "User registered successfully"
           /\ out.resp.rows = {}

\* a register was answered with success and its account is stored
C14_Witness ==
    /\ out.op = "register"
    /\ out.resp.status = 201
    /\ \E u \in users : u.email = out.email /\ u.id = seq

\* C15: an email goes from absent to stored only in the commit of a register
\* answered 201, and from stored to absent only in the commit of a
\* delete_user answered 200; an update_password answered 200 finds and leaves
\* the email stored; every other step (a failed request, login,
\* get_all_users) leaves each email absent or stored as it was.
C15_LifecycleTransitions ==
    [][\A e \in Emails :
         LET was == AccountsOf(users, e) # {}
             is == AccountsOf(users', e) # {}
         IN  /\ (~was /\ is)
                  => \E c \in Clients :
                        /\ Committed(c, "register") /\ req[c].email = e
                        /\ out'.client = c /\ out'.resp.status = 201
             /\ (was /\ ~is)
                  => \E c \in Clients :
                        /\ Committed(c, "delete") /\ req[c].email = e
                        /\ out'.client = c /\ out'.resp.status = 200
             /\ (\E c \in Clients :
                    /\ Committed(c, "change") /\ req[c].email = e
                    /\ out'.resp.status = 200)
                  => (was /\ is)
      ]_vars

\* an account that was stored has been deleted
C15_Witness ==
    /\ out.op = "delete"
    /\ out.resp.status = 200
    /\ AccountsOf(users, out.email) = {}
    /\ \E h \in issued : h.email = out.email

\* C16: when an update_password with secret pNew commits with success, login
\* on that email succeeds exactly for the candidates that have the first 72
\* UTF-8 bytes of pNew, so the earlier secret is refused when it differs
\* from pNew within those bytes; and the account stays as written until the
\* commit of another update_password or of a delete_user on that email.
C16_LoginFollowsNewSecret ==
    [][/\ \A c \in Clients :
            (Committed(c, "change") /\ out'.resp.status = 200)
            => /\ \A p \in LoginSecrets \cup {accepted[req[c].email]} :
                      (LoginResponse(users', req[c].email, p).status = 200)
                      <=> SamePrefix(Utf8(p), Utf8(req[c].pw), BcryptLimit)
               /\ \A p \in LoginSecrets \cup {accepted[req[c].email]} :
                      (LoginResponse(users', req[c].email, p).status # 200)
                      => LoginResponse(users', req[c].email, p)
                             = InvalidCredentials
       /\ \A e \in Emails :
            (AccountsOf(users, e) # {} /\ AccountsOf(users', e) # AccountsOf(users, e))
            => \E c \in Clients :
                  /\ req[c].email = e
                  /\ Committed(c, "change") \/ Committed(c, "delete")
       /\ \A c \in Clients, e \in Emails, p \in LoginSecrets :
            Called(c, "login", e, p) => out'.resp = LoginResponse(users, e, p)
      ]_vars

\* after an update_password a candidate of 73 characters logs in and the
\* 8-character secret does not
C16_Witness ==
    /\ out.op = "change"
    /\ out.resp.status = 200
    /\ LoginResponse(users, out.email, Wide73).status = 200
    /\ LoginResponse(users, out.email, Plain8) = InvalidCredentials
    /\ ~SamePrefix(Utf8(Plain8), Utf8(out.pw), BcryptLimit)

\* C17: an update_password that commits with success changes the credential
\* of the account with its email and nothing else: the ids and emails of all
\* accounts are the same, and every account with another email is the same
\* row as before.
C17_ChangeTouchesOnlyCredential ==
    [][\A c \in Clients :
         (Committed(c, "change") /\ out'.resp.status = 200)
         => /\ UserResponses(users') = UserResponses(users)
            /\ Cardinality(users') = Cardinality(users)
            /\ \A u \in users : u.email # req[c].email => u \in users'
            /\ \E u \in users' :
                  /\ u.id = req[c].seen
                  /\ u.email = req[c].email
                  /\ Genuine(u.password, req[c].pw)
            /\ seq' = seq
      ]_vars

\* the password of one of two stored accounts was changed
C17_Witness ==
    /\ out.op = "change"
    /\ out.resp.status = 200
    /\ Cardinality(users) = 2
    /\ \E u \in users : u.email # out.email /\ accepted[u.email] # out.pw

\* C18 (as stated): a register with a valid body that does not succeed is
\* refused with "User already exists" (400), whatever the interleaving with
\* other registers of the same email.
C18_RefusedRegisterAlreadyExists ==
    (out.op = "register" /\ UserSchemaOk(out.pw) /\ out.resp.status # 201)
    => out.resp = AlreadyExists

\* the register that loses the race on the unique index: it saw no account
\* at its query, its insert fails, and the answer is the unhandled error
C18_RaceLoserServerError ==
    /\ out.op = "register"
    /\ UserSchemaOk(out.pw)
    /\ out.seen = 0
    /\ out.resp = ServerError
    /\ \E u \in users : u.email = out.email

\* C19: an update_password for an email that has no account at commit
\* changes no row and is not answered with success; in particular it never
\* creates an account. A success means the row it read was still there.
C19_ChangeNeverCreates ==
    [][\A c \in Clients :
         /\ (Committed(c, "change") /\ (\A u \in users : u.id # req[c].seen))
            => /\ users' = users
               /\ accepted' = accepted
               /\ out'.resp.status # 200
               /\ out'.resp = ServerError
         /\ (Committed(c, "change") /\ out'.resp.status = 200)
            => /\ (\E u \in users : u.id = req[c].seen)
               /\ \A e \in Emails :
                     AccountsOf(users, e) = {} => AccountsOf(users', e) = {}
         /\ \A e \in Emails, p \in ChangeSecrets :
              (Called(c, "change", e, p) /\ AccountsOf(users, e) = {})
              => users' = users /\ out'.resp.status # 200
      ]_vars

\* an update_password whose account was deleted between its query and its
\* commit: it is answered with an error and the email stays absent
C19_Witness ==
    /\ out.op = "change"
    /\ out.seen # 0
    /\ out.resp = ServerError
    /\ AccountsOf(users, out.email) = {}

\* C20: a login on a stored email succeeds exactly when the candidate has the
\* first 72 UTF-8 bytes of the secret last committed for that email, whatever
\* the candidate's length; a login is never refused by validation (422), and
\* every refusal is the 401 answer.
C20_LoginComparesFirst72Bytes ==
    (out.op = "login")
    => /\ out.resp.status \in {200, 401}
       /\ out.resp.status = 401 => out.resp = InvalidCredentials
       /\ out.seen = 0 => out.resp = InvalidCredentials
       /\ (out.seen # 0 /\ accepted[out.email] # NoSecret)
          => ((out.resp.status = 200)
              <=> SamePrefix(Utf8(out.pw), Utf8(accepted[out.email]),
                             BcryptLimit))

\* a candidate of 73 characters, longer than any secret register accepts,
\* logged in; and it is not the stored secret itself
C20_Witness ==
    /\ out.op = "login"
    /\ out.resp.status = 200
    /\ Len(out.pw) > MaxLength
    /\ out.pw # accepted[out.email]

=============================================================================
